---- MODULE Spec2Model ----
(***************************************************************************)
(* Model of the aeat_rege module: REGE taxation periods, party             *)
(* memberships, their non-overlap validators and the derived fields        *)
(* computed from them.                                                     *)
(*                                                                         *)
(* Dates are the integers 1..MaxDate; date.min and date.max are the two    *)
(* integers just outside that range.  None (SQL NULL) is the integer -1.   *)
(* A table is a sequence of rows; the id of a row is its index.            *)
(***************************************************************************)
EXTENDS Integers, Sequences, FiniteSets, TLC

MaxDate == 3
MaxRows == 2

None == -1
date_min == 0
date_max == MaxDate + 1
Dates == 1..MaxDate
OptDates == Dates \cup {None}

REGEIds == {1, 2}
PartyIds == {1, 2}
PeriodTypes == {"normal", "advanced"}

\* periods, members: the stored rows of aeat.rege.period and aeat.rege.member.
\* line: the invoice line whose cost_price_show is computed.
\* req, ret: the last operation with its arguments, and what it returned or
\* the id of the error message it raised.
VARIABLES periods, members, line, req, ret

vars == <<periods, members, line, req, ret>>

Coalesce(x, default) == IF x = None THEN default ELSE x

\* Variants of the WHERE condition: without the containment test, and with
\* a strict comparison at the start of the record.
OverlapCondition_NoContainment(start, end, record_start, record_end) ==
    \/ (start <= record_start /\ end >= record_start)
    \/ (start <= record_end /\ end >= record_end)

OverlapCondition_StrictStart(start, end, record_start, record_end) ==
    \/ (start <= record_start /\ end > record_start)
    \/ (start <= record_end /\ end >= record_end)
    \/ (start >= record_start /\ end <= record_end)

(***************************************************************************)
(* The WHERE condition shared by both check_date_intervals queries.        *)
(***************************************************************************)
OverlapCondition(start, end, record_start, record_end) ==
    \/ (start <= record_start /\ end >= record_start)
    \/ (start <= record_end /\ end >= record_end)
    \/ (start >= record_start /\ end <= record_end)

(***************************************************************************)
(* REGEPeriod                                                              *)
(***************************************************************************)
\* Variant: equal dates accepted.
date_interval_period_NonStrict(rec) ==
    \/ rec.start_date = None
    \/ rec.end_date = None
    \/ rec.start_date <= rec.end_date

\* Check(table, table.start_date < table.end_date): a NULL operand makes the
\* SQL condition NULL, which a CHECK constraint accepts.
date_interval_period(rec) ==
    \/ rec.start_date = None
    \/ rec.end_date = None
    \/ rec.start_date < rec.end_date

\* Variant: the validated period itself is not excluded from the query.
PeriodOverlaps_Self(table, pid) ==
    LET period == table[pid]
        period_start == Coalesce(period.start_date, date_min)
        period_end == Coalesce(period.end_date, date_max)
    IN  { id \in DOMAIN table :
            LET start == Coalesce(table[id].start_date, date_min)
                end == Coalesce(table[id].end_date, date_max)
            IN  /\ table[id].rege = period.rege
                /\ OverlapCondition(start, end, period_start, period_end) }

\* The ids selected by the query of check_date_intervals for one period.
PeriodOverlaps(table, pid) ==
    LET period == table[pid]
        period_start == Coalesce(period.start_date, date_min)
        period_end == Coalesce(period.end_date, date_max)
    IN  { id \in DOMAIN table :
            LET start == Coalesce(table[id].start_date, date_min)
                end == Coalesce(table[id].end_date, date_max)
            IN  /\ id # pid
                /\ table[id].rege = period.rege
                /\ OverlapCondition(start, end, period_start, period_end) }

REGEPeriod_check_date_intervals(table, ids) ==
    IF \E pid \in ids : PeriodOverlaps(table, pid) # {}
    THEN "msg_period_overlap"
    ELSE "ok"

REGEPeriod_validate(table, ids) == REGEPeriod_check_date_intervals(table, ids)

\* Storing the row `rec` under `id` (a new id or an existing one): the row
\* is written, the SQL constraint is checked, then validate runs; an error
\* rolls the transaction back.
PeriodSaveResult(table, id, rec) ==
    IF ~date_interval_period(rec)
    THEN "msg_date_interval_period"
    ELSE REGEPeriod_validate(table, {id})

SavePeriod(op, id, rec) ==
    LET table == IF id \in DOMAIN periods
                 THEN [periods EXCEPT ![id] = rec]
                 ELSE Append(periods, rec)
        err == PeriodSaveResult(table, id, rec)
    IN  /\ periods' = IF err = "ok" THEN table ELSE periods
        /\ req' = [op |-> op, id |-> id, rec |-> rec]
        /\ ret' = err
        /\ UNCHANGED <<members, line>>

PeriodRows ==
    [rege : REGEIds, type : PeriodTypes, start_date : OptDates, end_date : OptDates]

CreatePeriod ==
    /\ Len(periods) + Len(members) < MaxRows
    /\ \E rec \in PeriodRows : SavePeriod("period.create", Len(periods) + 1, rec)

WritePeriod ==
    \E id \in DOMAIN periods, rec \in PeriodRows : SavePeriod("period.write", id, rec)

(***************************************************************************)
(* REGEMember                                                              *)
(***************************************************************************)
\* Check(table, table.exit_date > table.registration_date)
date_interval_registration(rec) ==
    \/ rec.exit_date = None
    \/ rec.exit_date > rec.registration_date

\* Variant: the query filters on the REGE, as the query of periods does.
MemberOverlaps_ByRege(table, rid) ==
    LET record == table[rid]
        record_start == record.registration_date
        record_end == Coalesce(record.exit_date, date_max)
    IN  { id \in DOMAIN table :
            LET start == table[id].registration_date
                end == Coalesce(table[id].exit_date, date_max)
            IN  /\ id # rid
                /\ table[id].rege = record.rege
                /\ OverlapCondition(start, end, record_start, record_end) }

\* The ids selected by the query of check_date_intervals for one membership.
MemberOverlaps(table, rid) ==
    LET record == table[rid]
        record_start == record.registration_date
        record_end == Coalesce(record.exit_date, date_max)
    IN  { id \in DOMAIN table :
            LET start == table[id].registration_date
                end == Coalesce(table[id].exit_date, date_max)
            IN  /\ id # rid
                /\ table[id].party = record.party
                /\ OverlapCondition(start, end, record_start, record_end) }

REGEMember_check_date_intervals(table, ids) ==
    IF \E rid \in ids : MemberOverlaps(table, rid) # {}
    THEN "msg_membership_overlap"
    ELSE "ok"

REGEMember_validate(table, ids) == REGEMember_check_date_intervals(table, ids)

MemberSaveResult(table, id, rec) ==
    IF ~date_interval_registration(rec)
    THEN "msg_date_interval_registration"
    ELSE REGEMember_validate(table, {id})

SaveMember(op, id, rec) ==
    LET table == IF id \in DOMAIN members
                 THEN [members EXCEPT ![id] = rec]
                 ELSE Append(members, rec)
        err == MemberSaveResult(table, id, rec)
    IN  /\ members' = IF err = "ok" THEN table ELSE members
        /\ req' = [op |-> op, id |-> id, rec |-> rec]
        /\ ret' = err
        /\ UNCHANGED <<periods, line>>

\* registration_date is a required field.
MemberRows ==
    [rege : REGEIds, party : PartyIds, registration_date : Dates, exit_date : OptDates]

CreateMember ==
    /\ Len(periods) + Len(members) < MaxRows
    /\ \E rec \in MemberRows : SaveMember("member.create", Len(members) + 1, rec)

WriteMember ==
    \E id \in DOMAIN members, rec \in MemberRows : SaveMember("member.write", id, rec)

(***************************************************************************)
(* Derived fields of memberships and REGEs.                                *)
(***************************************************************************)
REGEMember_on_change_with_is_active(rec, today) ==
    LET exit_date == Coalesce(rec.exit_date, date_max)
    IN  rec.registration_date <= today /\ today <= exit_date

\* sum(1 for m in self.members if m.is_active)
RECURSIVE ActiveSum(_, _, _)
ActiveSum(rows, rege, today) ==
    IF rows = << >>
    THEN 0
    ELSE (IF /\ Head(rows).rege = rege
             /\ REGEMember_on_change_with_is_active(Head(rows), today)
          THEN 1 ELSE 0) + ActiveSum(Tail(rows), rege, today)

\* Variant: the sum is returned as it is.
REGE_get_active_member_count_Sum(rege, today) ==
    ActiveSum(members, rege, today)

\* `<sum> or None`: a sum of 0 is falsy.
REGE_get_active_member_count(rege, today) ==
    LET n == ActiveSum(members, rege, today)
    IN  IF n = 0 THEN None ELSE n

\* The operand built by `table.registration_date <= today <= exit_date`.
\* Python evaluates the chain as `(a <= today) and (today <= b)`; the left
\* comparison yields an SQL expression object, which is truthy, so `and`
\* yields its right operand: only today <= Coalesce(exit_date, date.max)
\* reaches the query.
SearchOperand(row, today) ==
    today <= Coalesce(row.exit_date, date_max)

SQL_OPERATORS(operator, operand, value) ==
    IF operator = "=" THEN operand = value ELSE operand # value

REGEMember_search_is_active(operator, value, today) ==
    { id \in DOMAIN members :
        SQL_OPERATORS(operator, SearchOperand(members[id], today), value) }

OnChangeWithIsActive ==
    \E registration_date \in Dates, exit_date \in OptDates, today \in Dates :
        /\ req' = [op |-> "member.on_change_with_is_active",
                   registration_date |-> registration_date,
                   exit_date |-> exit_date, today |-> today]
        /\ ret' = REGEMember_on_change_with_is_active(
                    [registration_date |-> registration_date,
                     exit_date |-> exit_date], today)
        /\ UNCHANGED <<periods, members, line>>

GetActiveMemberCount ==
    \E rege \in REGEIds, today \in Dates :
        /\ req' = [op |-> "rege.get_active_member_count",
                   rege |-> rege, today |-> today]
        /\ ret' = REGE_get_active_member_count(rege, today)
        /\ UNCHANGED <<periods, members, line>>

SearchIsActive ==
    \E operator \in {"=", "!="}, value \in BOOLEAN, today \in Dates :
        /\ req' = [op |-> "member.search_is_active", operator |-> operator,
                   value |-> value, today |-> today]
        /\ ret' = REGEMember_search_is_active(operator, value, today)
        /\ UNCHANGED <<periods, members, line>>

(***************************************************************************)
(* Derived state of a period.                                              *)
(***************************************************************************)
\* Variant: the end date is excluded.
REGEPeriod_contains_date_Exclusive(rec, date) ==
    LET start_date == Coalesce(rec.start_date, date_min)
        end_date == Coalesce(rec.end_date, date_max)
    IN  start_date <= date /\ date < end_date

REGEPeriod_contains_date(rec, date) ==
    LET start_date == Coalesce(rec.start_date, date_min)
        end_date == Coalesce(rec.end_date, date_max)
    IN  start_date <= date /\ date <= end_date

REGEPeriod_on_change_with_state(rec, today) ==
    IF REGEPeriod_contains_date(rec, today)
    THEN "open"
    ELSE IF Coalesce(rec.start_date, date_min) > today
         THEN "scheduled"
         ELSE "closed"

\* The field is computed from the values of the form, stored or not.
OnChangeWithState ==
    \E start_date \in OptDates, end_date \in OptDates, today \in Dates :
        /\ req' = [op |-> "period.on_change_with_state",
                   start_date |-> start_date, end_date |-> end_date,
                   today |-> today]
        /\ ret' = REGEPeriod_on_change_with_state(
                    [start_date |-> start_date, end_date |-> end_date], today)
        /\ UNCHANGED <<periods, members, line>>

\* The date part of the WHERE clause for one stored row and one record.
EvalOverlapCondition ==
    \E start_date \in OptDates, end_date \in OptDates,
       record_start \in OptDates, record_end \in OptDates :
        /\ req' = [op |-> "check_date_intervals.where",
                   start |-> Coalesce(start_date, date_min),
                   end |-> Coalesce(end_date, date_max),
                   record_start |-> Coalesce(record_start, date_min),
                   record_end |-> Coalesce(record_end, date_max)]
        /\ ret' = OverlapCondition(req'.start, req'.end,
                                   req'.record_start, req'.record_end)
        /\ UNCHANGED <<periods, members, line>>

(***************************************************************************)
(* Lookups by date and the invoice line.                                   *)
(***************************************************************************)
\* _order of aeat.rege.member: exit_date DESC NULLS FIRST, then the id.
MemberBefore(a, b) ==
    LET ka == Coalesce(members[a].exit_date, date_max + 1)
        kb == Coalesce(members[b].exit_date, date_max + 1)
    IN  ka > kb \/ (ka = kb /\ a < b)

\* The id of the first membership of the party that contains the date.
REGEMember_get_by_date(party, date) ==
    LET memberships == { id \in DOMAIN members :
            /\ members[id].party = party
            /\ members[id].registration_date <= date
            /\ (members[id].exit_date = None \/ members[id].exit_date >= date) }
    IN  IF memberships = {}
        THEN None
        ELSE CHOOSE id \in memberships :
                \A o \in memberships \ {id} : MemberBefore(id, o)

Party_get_rege_by_date(party, date) ==
    LET membership == REGEMember_get_by_date(party, date)
    IN  IF membership # None THEN members[membership].rege ELSE None

\* _order of aeat.rege.period: start_date DESC NULLS FIRST, end_date DESC
\* NULLS FIRST, then the id.
PeriodBefore(a, b) ==
    LET sa == Coalesce(periods[a].start_date, date_max + 1)
        sb == Coalesce(periods[b].start_date, date_max + 1)
        ea == Coalesce(periods[a].end_date, date_max + 1)
        eb == Coalesce(periods[b].end_date, date_max + 1)
    IN  sa > sb \/ (sa = sb /\ (ea > eb \/ (ea = eb /\ a < b)))

\* Variant: the periods of every REGE are searched.
REGE_get_period_by_date_AnyRege(rege, date) ==
    LET found == { id \in DOMAIN periods :
            REGEPeriod_contains_date(periods[id], date) }
    IN  IF found = {}
        THEN None
        ELSE CHOOSE id \in found : \A o \in found \ {id} : PeriodBefore(id, o)

\* The id of the first period of the REGE that contains the date.
REGE_get_period_by_date(rege, date) ==
    LET found == { id \in DOMAIN periods :
            /\ periods[id].rege = rege
            /\ REGEPeriod_contains_date(periods[id], date) }
    IN  IF found = {}
        THEN None
        ELSE CHOOSE id \in found : \A o \in found \ {id} : PeriodBefore(id, o)

\* The company of the scenario and its party.
CompanyIds == {1}
CompanyParty(company) == 1

InvoiceLine_on_change_with_cost_price_show(l, today) ==
    IF \/ l.company = None
       \/ l.invoice_party = None
       \/ l.type # "line"
       \/ l.invoice_type = "in"
       \/ ~l.invoice.present
    THEN FALSE
    ELSE
        LET date == IF l.invoice.accounting_date # None
                    THEN l.invoice.accounting_date
                    ELSE IF l.invoice.invoice_date # None
                         THEN l.invoice.invoice_date
                         ELSE today
            party_rege == Party_get_rege_by_date(l.invoice_party, date)
            company_rege == Party_get_rege_by_date(CompanyParty(l.company), date)
        IN  IF party_rege = None \/ company_rege = None
                \/ party_rege # company_rege
            THEN FALSE
            ELSE
                LET period == REGE_get_period_by_date(party_rege, date)
                IN  IF period = None
                    THEN FALSE
                    ELSE IF periods[period].type # "advanced"
                    THEN FALSE
                    ELSE IF l.invoice_state # "draft"
                    THEN l.cost_price # None
                    ELSE TRUE

OnChangeWithCostPriceShow ==
    \E today \in Dates :
        /\ req' = [op |-> "line.on_change_with_cost_price_show", today |-> today]
        /\ ret' = InvoiceLine_on_change_with_cost_price_show(line, today)
        /\ UNCHANGED <<periods, members, line>>

\* Cost prices and unit prices are the integers 0..MaxPrice.
MaxPrice == 2
MaxQuantity == 2
Prices == 0..MaxPrice

\* Variant: the cost price is taken off every taxable line.
InvoiceLine_taxable_lines_EveryLine(base, cost_price_attr, cost_price_show) ==
    LET cost_price == IF cost_price_attr = None THEN 0 ELSE cost_price_attr
    IN  IF cost_price_show /\ base # << >>
        THEN [i \in DOMAIN base |-> [base[i] EXCEPT ![2] = @ - cost_price]]
        ELSE base

\* taxable_lines: the first taxable line is (taxes, unit_price, quantity,
\* tax_date); its second element is reduced by the cost price.
InvoiceLine_taxable_lines(base, cost_price_attr, cost_price_show) ==
    LET cost_price == IF cost_price_attr = None THEN 0 ELSE cost_price_attr
    IN  IF cost_price_show /\ base # << >>
        THEN [base EXCEPT ![1] = [base[1] EXCEPT ![2] = @ - cost_price]]
        ELSE base

\* What the base implementation may return: up to two taxable lines.
TaxableTuples == { <<taxes, unit_price, quantity, 1>> :
    taxes \in {{"iva21"}}, unit_price \in Prices, quantity \in 1..MaxQuantity }

BaseTaxableLines ==
    {<< >>} \cup { <<t>> : t \in TaxableTuples }
            \cup { <<t, u>> : t \in TaxableTuples, u \in TaxableTuples }

TaxableLines ==
    \E base \in BaseTaxableLines, cost_price \in Prices \cup {None},
       cost_price_show \in BOOLEAN :
        /\ req' = [op |-> "line.taxable_lines", base |-> base,
                   cost_price |-> cost_price, cost_price_show |-> cost_price_show]
        /\ ret' = InvoiceLine_taxable_lines(base, cost_price, cost_price_show)
        /\ UNCHANGED <<periods, members, line>>

(***************************************************************************)
(* The scenario of the test: a REGE with an advanced period from today and *)
(* a normal period until yesterday, a second REGE with an unlimited        *)
(* period, and the memberships of the company and of the customer.         *)
(***************************************************************************)
ScenarioToday == 2

ScenarioPeriods == <<
    [rege |-> 1, type |-> "advanced", start_date |-> ScenarioToday, end_date |-> None],
    [rege |-> 1, type |-> "normal", start_date |-> None, end_date |-> ScenarioToday - 1],
    [rege |-> 2, type |-> "normal", start_date |-> None, end_date |-> None] >>

\* The periods are created in the order of the scenario; the type of the
\* period of the second REGE is either type.
SetupPeriod ==
    /\ Len(periods) < Len(ScenarioPeriods)
    /\ LET rec == ScenarioPeriods[Len(periods) + 1]
       IN  \E type \in (IF rec.rege = 1 THEN {rec.type} ELSE PeriodTypes) :
            SavePeriod("period.create", Len(periods) + 1,
                       [rec EXCEPT !.type = type])

\* The company's party (1) joins the first REGE, then the customer (2)
\* joins either REGE; the registration date defaults to today and may be
\* set earlier.
SetupMember ==
    /\ Len(members) < 2
    /\ \E rege \in (IF Len(members) = 0 THEN {1} ELSE REGEIds),
          registration_date \in {ScenarioToday - 1, ScenarioToday} :
        SaveMember("member.create", Len(members) + 1,
                   [rege |-> rege, party |-> Len(members) + 1,
                    registration_date |-> registration_date,
                    exit_date |-> None])

(***************************************************************************)
(* Specifications.                                                         *)
(***************************************************************************)
NoInvoice == [present |-> FALSE, accounting_date |-> None, invoice_date |-> None]

NoLine == [company |-> None, invoice_party |-> None, type |-> "line",
           invoice_type |-> "out", invoice |-> NoInvoice,
           invoice_state |-> "draft", cost_price |-> None]

Init ==
    /\ periods = << >>
    /\ members = << >>
    /\ line = NoLine
    /\ req = [op |-> "none"]
    /\ ret = "ok"

\* The two stored tables under create and write.
Next ==
    \/ CreatePeriod
    \/ WritePeriod
    \/ CreateMember
    \/ WriteMember

Spec == Init /\ [][Next]_vars

\* Memberships and the fields derived from them.
NextMember ==
    \/ CreateMember
    \/ WriteMember
    \/ OnChangeWithIsActive
    \/ GetActiveMemberCount
    \/ SearchIsActive

SpecMember == Init /\ [][NextMember]_vars

\* The functions of dates alone.
NextDates ==
    \/ OnChangeWithState
    \/ EvalOverlapCondition

SpecDates == Init /\ [][NextDates]_vars

\* The tax base of an invoice line.
SpecTax == Init /\ [][TaxableLines]_vars

\* An invoice line computed while the scenario builds the tables.
Invoices ==
    {NoInvoice} \cup [present : {TRUE}, accounting_date : OptDates,
                      invoice_date : OptDates]

Lines ==
    [company : CompanyIds \cup {None}, invoice_party : PartyIds \cup {None},
     type : {"line", "comment"}, invoice_type : {"out", "in"},
     invoice : Invoices, invoice_state : {"draft", "posted"},
     cost_price : {None, 0, MaxPrice}]

InitInvoice ==
    /\ periods = << >>
    /\ members = << >>
    /\ line \in Lines
    /\ req = [op |-> "none"]
    /\ ret = "ok"

NextInvoice ==
    \/ SetupPeriod
    \/ SetupMember
    \/ OnChangeWithCostPriceShow

SpecInvoice == InitInvoice /\ [][NextInvoice]_vars

(***************************************************************************)
(* Vocabulary of the properties: closed date intervals.                    *)
(***************************************************************************)
AllDays == date_min..date_max

\* The days of the closed interval [lo, hi], an empty bound being unbounded.
Days(lo, hi) ==
    { d \in AllDays : Coalesce(lo, date_min) <= d /\ d <= Coalesce(hi, date_max) }

PeriodDays(rec) == Days(rec.start_date, rec.end_date)
MemberDays(rec) == Days(rec.registration_date, rec.exit_date)

PeriodOps == {"period.create", "period.write"}
MemberOps == {"member.create", "member.write"}

\* C1: no two distinct stored periods of the same REGE have intersecting
\* closed date intervals (empty start = earliest date, empty end = latest
\* date); periods of different REGEs are not constrained.
C1_PeriodsDisjoint ==
    \A i, j \in DOMAIN periods :
        (i # j /\ periods[i].rege = periods[j].rege)
            => PeriodDays(periods[i]) \cap PeriodDays(periods[j]) = {}

\* Two periods of one REGE are stored after an accepted write.
C1_Witness ==
    /\ req.op = "period.write"
    /\ ret = "ok"
    /\ \E i, j \in DOMAIN periods : i # j /\ periods[i].rege = periods[j].rege

\* C2: no two distinct stored memberships of the same party have
\* intersecting closed intervals [registration_date, exit_date] (empty
\* exit_date = latest date), whatever REGEs they point to.
C2_MembersDisjoint ==
    \A i, j \in DOMAIN members :
        (i # j /\ members[i].party = members[j].party)
            => MemberDays(members[i]) \cap MemberDays(members[j]) = {}

\* Two memberships of one party in different REGEs are stored.
C2_Witness ==
    /\ req.op \in MemberOps
    /\ ret = "ok"
    /\ \E i, j \in DOMAIN members :
        i # j /\ members[i].party = members[j].party
              /\ members[i].rege # members[j].rege

\* Some other stored period of the REGE of the saved period intersects it.
PeriodIntersected(stored, id, rec) ==
    \E o \in DOMAIN stored :
        /\ o # id
        /\ stored[o].rege = rec.rege
        /\ PeriodDays(stored[o]) \cap PeriodDays(rec) # {}

MemberIntersected(stored, id, rec) ==
    \E o \in DOMAIN stored :
        /\ o # id
        /\ stored[o].party = rec.party
        /\ MemberDays(stored[o]) \cap MemberDays(rec) # {}

PeriodOrdered(rec) ==
    (rec.start_date # None /\ rec.end_date # None) => rec.start_date < rec.end_date

MemberOrdered(rec) ==
    rec.exit_date # None => rec.exit_date > rec.registration_date

\* The statement of C8 as written: every save raises the overlap error
\* exactly when another stored row intersects the saved one, and a save
\* that raises leaves both tables as they were.
C8_OriginalStep ==
    /\ req'.op \in PeriodOps =>
        ((ret' = "msg_period_overlap")
            <=> PeriodIntersected(periods, req'.id, req'.rec))
    /\ req'.op \in MemberOps =>
        ((ret' = "msg_membership_overlap")
            <=> MemberIntersected(members, req'.id, req'.rec))
    /\ (req'.op \in PeriodOps \cup MemberOps /\ ret' # "ok") =>
        (periods' = periods /\ members' = members)

C8_Original == [][C8_OriginalStep]_vars

\* C8 (amended): a save whose dates satisfy the date-interval constraint
\* raises the overlap error exactly when another stored row of the same
\* REGE (period) or party (membership) intersects the saved interval; a row
\* is never compared with itself; a save that raises any error leaves both
\* tables as they were.
C8_Step ==
    /\ (req'.op \in PeriodOps /\ PeriodOrdered(req'.rec)) =>
        ((ret' = "msg_period_overlap")
            <=> PeriodIntersected(periods, req'.id, req'.rec))
    /\ (req'.op \in MemberOps /\ MemberOrdered(req'.rec)) =>
        ((ret' = "msg_membership_overlap")
            <=> MemberIntersected(members, req'.id, req'.rec))
    /\ (req'.op \in PeriodOps \cup MemberOps /\ ret' # "ok") =>
        (periods' = periods /\ members' = members)

C8_ValidationExact == [][C8_Step]_vars

\* A write of an existing period was rejected because of another period.
C8_Witness ==
    /\ req.op = "period.write"
    /\ ret = "msg_period_overlap"
    /\ Len(periods) = 2

\* C9: every stored period with both dates set has start_date < end_date
\* and every stored membership with an exit_date has exit_date >
\* registration_date; a save is rejected by the date-interval constraint
\* exactly when its two dates are both set and equal or reversed, so a
\* record with an empty bound passes it.
C9_StrictDateOrder ==
    /\ \A i \in DOMAIN periods : PeriodOrdered(periods[i])
    /\ \A i \in DOMAIN members : MemberOrdered(members[i])
    /\ req.op \in PeriodOps =>
        ((ret = "msg_date_interval_period") <=> ~PeriodOrdered(req.rec))
    /\ req.op \in MemberOps =>
        ((ret = "msg_date_interval_registration") <=> ~MemberOrdered(req.rec))

\* A write that makes the two dates of a stored period equal was rejected.
C9_Witness ==
    /\ req.op = "period.write"
    /\ req.rec.start_date # None
    /\ req.rec.start_date = req.rec.end_date
    /\ ret = "msg_date_interval_period"

\* C3: for well-formed intervals (start <= end, record_start <= record_end
\* after replacing empty bounds by the minimum/maximum date) the three-way
\* condition is true exactly when start <= record_end and record_start <=
\* end; intervals that share only one endpoint day overlap.
C3_ClosedIntersection ==
    (/\ req.op = "check_date_intervals.where"
     /\ req.start <= req.end
     /\ req.record_start <= req.record_end)
        => /\ ret = (req.start <= req.record_end /\ req.record_start <= req.end)
           /\ (req.end = req.record_start \/ req.record_end = req.start) => ret

\* Two proper intervals that share exactly their endpoint day overlap.
C3_Witness ==
    /\ req.op = "check_date_intervals.where"
    /\ req.start < req.end
    /\ req.end = req.record_start
    /\ req.record_start < req.record_end
    /\ ret = TRUE

\* The three conditions of C6 on the dates of a period.
StateAsClaimed(r, state) ==
    /\ state \in {"open", "closed", "scheduled"}
    /\ (state = "open") <=>
        (/\ (r.start_date = None \/ r.start_date <= r.today)
         /\ (r.end_date = None \/ r.today <= r.end_date))
    /\ (state = "scheduled") <=> (r.start_date # None /\ r.start_date > r.today)
    /\ (state = "closed") <=> (r.end_date # None /\ r.end_date < r.today)
    /\ (r.start_date = None /\ r.end_date = None) => state = "open"

\* The statement of C6 as written, for every pair of dates.
C6_Original ==
    req.op = "period.on_change_with_state" => StateAsClaimed(req, ret)

\* C6 (amended): for every period whose start_date is not after its
\* end_date (every stored period is one) and every today, exactly one state
\* is returned: 'open' exactly when start_date <= today <= end_date (empty
\* bounds unlimited), 'scheduled' exactly when start_date is set and after
\* today, 'closed' exactly when end_date is set and before today; a period
\* with both dates empty is 'open'.
C6_StateClassification ==
    (/\ req.op = "period.on_change_with_state"
     /\ (req.start_date = None \/ req.end_date = None
            \/ req.start_date <= req.end_date))
        => StateAsClaimed(req, ret)

\* A period with both dates set, ended before today, is closed.
C6_Witness ==
    /\ req.op = "period.on_change_with_state"
    /\ req.start_date # None
    /\ req.end_date # None
    /\ req.start_date < req.end_date
    /\ req.end_date < req.today
    /\ ret = "closed"

\* Membership `rec` contains the day `d`, both bounds inclusive.
MemberContains(rec, d) ==
    rec.registration_date <= d /\ (rec.exit_date = None \/ d <= rec.exit_date)

\* C7: is_active is True exactly when registration_date <= today and
\* (exit_date is empty or today <= exit_date); get_active_member_count is
\* the number of active memberships of the REGE, and None when it is zero.
C7_ActiveMembers ==
    /\ req.op = "member.on_change_with_is_active" =>
        ret = MemberContains(req, req.today)
    /\ req.op = "rege.get_active_member_count" =>
        LET n == Cardinality({ i \in DOMAIN members :
                    members[i].rege = req.rege
                        /\ MemberContains(members[i], req.today) })
        IN  ret = IF n = 0 THEN None ELSE n

\* The count of a REGE that has memberships, none of them active, is None.
C7_Witness ==
    /\ req.op = "rege.get_active_member_count"
    /\ ret = None
    /\ \E i \in DOMAIN members : members[i].rege = req.rege

\* C10: the searcher with ('is_active', '=', v) selects exactly the
\* memberships whose getter returns v.
C10_SearcherAgreesWithGetter ==
    (req.op = "member.search_is_active" /\ req.operator = "=") =>
        ret = { i \in DOMAIN members :
                REGEMember_on_change_with_is_active(members[i], req.today)
                    = req.value }

\* The date the invoice line is computed for.
EffectiveDate(l, today) ==
    IF l.invoice.accounting_date # None THEN l.invoice.accounting_date
    ELSE IF l.invoice.invoice_date # None THEN l.invoice.invoice_date
    ELSE today

\* The conditions of C4.
CostPriceShowAsClaimed(l, today) ==
    /\ l.company # None
    /\ l.invoice_party # None
    /\ l.invoice.present
    /\ l.type = "line"
    /\ l.invoice_type # "in"
    /\ \E mp \in DOMAIN members, mc \in DOMAIN members, p \in DOMAIN periods :
        LET d == EffectiveDate(l, today)
        IN  /\ members[mp].party = l.invoice_party
            /\ MemberContains(members[mp], d)
            /\ members[mc].party = CompanyParty(l.company)
            /\ MemberContains(members[mc], d)
            /\ members[mp].rege = members[mc].rege
            /\ periods[p].rege = members[mp].rege
            /\ d \in PeriodDays(periods[p])
            /\ periods[p].type = "advanced"
    /\ (l.invoice_state = "draft" \/ l.cost_price # None)

\* C4: on_change_with_cost_price_show returns True exactly when the line
\* has a company, an invoice party and an invoice, is of type 'line', its
\* invoice type is not 'in', on the effective date (accounting_date, else
\* invoice_date, else today) the invoice party and the company's party have
\* memberships of the same REGE, that REGE has an 'advanced' period
\* containing the date, and the invoice is in draft or the cost price is not
\* None.
C4_CostPriceShow ==
    req.op = "line.on_change_with_cost_price_show" =>
        ret = CostPriceShowAsClaimed(line, req.today)

\* True for a posted invoice of the customer with a cost price of zero and
\* no date of its own.
C4_Witness ==
    /\ req.op = "line.on_change_with_cost_price_show"
    /\ ret = TRUE
    /\ line.invoice_party # CompanyParty(line.company)
    /\ line.invoice_state = "posted"
    /\ line.cost_price = 0
    /\ line.invoice.accounting_date = None
    /\ line.invoice.invoice_date = None

\* C5: with cost_price_show, the unit price of the first taxable line is
\* reduced by the cost price (a missing cost price counts as 0), so the
\* taxed base of that line is (unit_price - cost_price) x quantity; every
\* other element of every taxable line is unchanged; without
\* cost_price_show, or with no taxable line, the base result is returned
\* unchanged.
C5_TaxableLines ==
    req.op = "line.taxable_lines" =>
        LET base == req.base
            cost == IF req.cost_price = None THEN 0 ELSE req.cost_price
        IN  IF req.cost_price_show /\ Len(base) > 0
            THEN /\ Len(ret) = Len(base)
                 /\ ret[1][2] = base[1][2] - cost
                 /\ ret[1][2] * ret[1][3] = (base[1][2] - cost) * base[1][3]
                 /\ \A k \in {1, 3, 4} : ret[1][k] = base[1][k]
                 /\ \A i \in 2..Len(base) : ret[i] = base[i]
            ELSE ret = base

\* Two taxable lines, the first reduced by a cost price that is not zero.
C5_Witness ==
    /\ req.op = "line.taxable_lines"
    /\ req.cost_price_show
    /\ req.cost_price # None
    /\ req.cost_price > 0
    /\ Len(req.base) = 2
    /\ ret[1][2] = req.base[1][2] - req.cost_price
    /\ ret[2] = req.base[2]

====
